---- MODULE Spec2Model ----
(***************************************************************************)
(* Model of the Outlook MCP server's credential and API-access layer:      *)
(*   - callGraphAPI / callGraphAPIPaginated   (utils/graph-api)            *)
(*   - ensureAuthenticated                    (auth/index)                 *)
(*   - handleCreateDraft                      (email/create-draft)         *)
(* Strings are sequences of one-character strings so that the encoders can *)
(* be computed character by character.                                     *)
(***************************************************************************)
EXTENDS Integers, Sequences, FiniteSets, TLC

(* ------------------------------------------------------------------ *)
(* Bounds                                                              *)
(* ------------------------------------------------------------------ *)
MaxParams == 2      \* entries in a queryParams object (URL specification)
MaxPages == 2       \* pages in a paginated collection
MaxPageSize == 2    \* items on one page
MaxCountBound == 3  \* largest maxCount argument tried

(* ------------------------------------------------------------------ *)
(* Strings                                                             *)
(* ------------------------------------------------------------------ *)
Alnum ==
  {"a","b","c","d","e","f","g","h","i","j","k","l","m","n","o","p","q","r",
   "s","t","u","v","w","x","y","z","0","1","2","3","4","5","6","7","8","9",
   "A","B","C","D","E","F"}

\* characters encodeURIComponent leaves alone
UriUnreserved == Alnum \cup {"-","_",".","!","~","*","'","(",")"}

\* characters the application/x-www-form-urlencoded serializer leaves alone
FormUnreserved == Alnum \cup {"*","-",".","_"}

\* %XX of an ASCII character
PctOf(c) ==
  CASE c = " " -> <<"%","2","0">>
    [] c = "!" -> <<"%","2","1">>
    [] c = "$" -> <<"%","2","4">>
    [] c = "%" -> <<"%","2","5">>
    [] c = "&" -> <<"%","2","6">>
    [] c = "'" -> <<"%","2","7">>
    [] c = "(" -> <<"%","2","8">>
    [] c = ")" -> <<"%","2","9">>
    [] c = "+" -> <<"%","2","B">>
    [] c = "/" -> <<"%","2","F">>
    [] c = ":" -> <<"%","3","A">>
    [] c = "=" -> <<"%","3","D">>
    [] c = "?" -> <<"%","3","F">>
    [] c = "~" -> <<"%","7","E">>

RECURSIVE FlatMap(_, _)
FlatMap(F(_), s) ==
  IF s = <<>> THEN <<>> ELSE F(Head(s)) \o FlatMap(F, Tail(s))

encodeURIComponentChar(c) == IF c \in UriUnreserved THEN <<c>> ELSE PctOf(c)

encodeURIComponent(s) == FlatMap(encodeURIComponentChar, s)

FormEncodeChar(c) ==
  IF c = " " THEN <<"+">>
  ELSE IF c \in FormUnreserved THEN <<c>> ELSE PctOf(c)

FormEncode(s) == FlatMap(FormEncodeChar, s)

StartsWith(s, pre) ==
  /\ Len(s) >= Len(pre)
  /\ SubSeq(s, 1, Len(pre)) = pre

\* s.split(sep): the pieces of s between occurrences of the character sep
RECURSIVE Split(_, _)
Split(s, sep) ==
  IF \A i \in 1..Len(s) : s[i] # sep THEN <<s>>
  ELSE LET i == CHOOSE j \in 1..Len(s) :
                  /\ s[j] = sep
                  /\ \A k \in 1..(j-1) : s[k] # sep
       IN <<SubSeq(s, 1, i-1)>> \o Split(SubSeq(s, i+1, Len(s)), sep)

\* pieces.join(sep)
RECURSIVE Join(_, _)
Join(pieces, sep) ==
  IF pieces = <<>> THEN <<>>
  ELSE IF Len(pieces) = 1 THEN pieces[1]
  ELSE pieces[1] \o sep \o Join(Tail(pieces), sep)

MapSeq(F(_), s) == [i \in 1..Len(s) |-> F(s[i])]

CountChar(s, c) == Cardinality({i \in 1..Len(s) : s[i] = c})

(* ------------------------------------------------------------------ *)
(* URL construction in callGraphAPI                                    *)
(* A queryParams object is the sequence of its entries <<key, value>>  *)
(* in insertion order.                                                 *)
(* ------------------------------------------------------------------ *)
HTTP_PREFIX == <<"h","t","t","p",":","/","/">>
HTTPS_PREFIX == <<"h","t","t","p","s",":","/","/">>
GRAPH_API_ENDPOINT == HTTPS_PREFIX \o <<"g","/">>
FILTER_KEY == <<"$","f","i","l","t","e","r">>
FILTER_JOINED == <<"&">> \o FILTER_KEY \o <<"=">>
FILTER_ALONE == FILTER_KEY \o <<"=">>

IsFullUrl(path) == StartsWith(path, HTTP_PREFIX) \/ StartsWith(path, HTTPS_PREFIX)

HasKey(params, key) == \E i \in 1..Len(params) : params[i][1] = key

ValueOf(params, key) ==
  params[CHOOSE i \in 1..Len(params) : params[i][1] = key][2]

DeleteKey(params, key) == SelectSeq(params, LAMBDA e : e[1] # key)

\* const filter = queryParams.$filter; if (filter) ...
FilterTruthy(params) ==
  /\ HasKey(params, FILTER_KEY)
  /\ ValueOf(params, FILTER_KEY) # <<>>

\* the object after "if (filter) delete queryParams.$filter"
ParamsAfterBuild(path, params) ==
  IF IsFullUrl(path) \/ params = <<>> THEN params
  ELSE IF FilterTruthy(params) THEN DeleteKey(params, FILTER_KEY)
  ELSE params

EntryToString(e) == FormEncode(e[1]) \o <<"=">> \o FormEncode(e[2])

\* new URLSearchParams() filled by append(), then toString()
URLSearchParamsToString(entries) ==
  Join(MapSeq(EntryToString, entries), <<"&">>)

FilterSuffixJoined(queryString, filter) ==
  queryString \o FILTER_JOINED \o encodeURIComponent(filter)

FilterSuffix(queryString, filter) ==
  IF queryString # <<>>
    THEN queryString \o FILTER_JOINED \o encodeURIComponent(filter)
    ELSE FILTER_ALONE \o encodeURIComponent(filter)

QueryString(params) ==
  IF params = <<>> THEN <<>>
  ELSE LET hasFilter == FilterTruthy(params)
           regular   == IF hasFilter THEN DeleteKey(params, FILTER_KEY)
                                     ELSE params
           q0 == URLSearchParamsToString(regular)
           q1 == IF hasFilter
                   THEN FilterSuffix(q0, ValueOf(params, FILTER_KEY))
                   ELSE q0
       IN IF q1 # <<>> THEN <<"?">> \o q1 ELSE q1

EncodedPath(path) ==
  Join(MapSeq(encodeURIComponent, Split(path, "/")), <<"/">>)

FinalUrlBuilt(path, params) ==
  GRAPH_API_ENDPOINT \o EncodedPath(path) \o QueryString(params)

FinalUrl(path, params) ==
  IF IsFullUrl(path) THEN path
  ELSE GRAPH_API_ENDPOINT \o EncodedPath(path) \o QueryString(params)

(* ------------------------------------------------------------------ *)
(* State                                                               *)
(* ------------------------------------------------------------------ *)
VARIABLES
  stored,     \* the persisted Credential, or NoCred
  issued,     \* number of access tokens minted so far (tokens are 1..issued)
  inflight,   \* per TokenStorage instance: is its refresh network call in flight
  pc,         \* per caller: position in its operation
  op,         \* per caller: the operation it runs
  tokRes,     \* per caller: the getValidAccessToken() call it awaits
  token,      \* per caller: accessToken argument of the current callGraphAPI
  req,        \* per caller: method, path, data and the queryParams object
  sent,       \* per caller: HTTP attempts of the current callGraphAPI request
  fresh,      \* per caller: what the gateway's refresh call returned
  gwCalls,    \* per caller: refresh calls the current request made on a 401
  netCalls,   \* refresh grants sent to the identity provider so far
  outcome,    \* per caller: how the current callGraphAPI promise settled
  result,     \* per caller: what the operation handed back
  hist,       \* per caller: counts of what its operation has done so far
  paging,     \* callGraphAPIPaginated locals of the paginating caller
  pages,      \* the server's collection: a chain of pages
  urlIn,      \* URL specification: path and queryParams given
  urlOut,     \* URL specification: URL built and queryParams afterwards
  rpc         \* request handler specification: the request and its handling

vars == <<stored, issued, inflight, pc, op, tokRes, token, req, sent, fresh,
          gwCalls, netCalls, outcome, result, hist, paging, pages, urlIn,
          urlOut, rpc>>

Procs == {"p1", "p2"}

\* TokenStorage instances: the module-level one of graph-api, the one each
\* ensureAuthenticated() call constructs, and the one the create-draft
\* fallback constructs
GW == <<"gw", "all">>
EA(p) == <<"ea", p>>
FB(p) == <<"fb", p>>
Inst == {GW} \cup {EA(p) : p \in Procs} \cup {FB(p) : p \in Procs}

NoCred == [present |-> FALSE, access |-> 0, hasRefresh |-> FALSE, expired |-> FALSE]
Cred(a, r, e) == [present |-> TRUE, access |-> a, hasRefresh |-> r, expired |-> e]

\* a getValidAccessToken() call: not made, pending on an instance's refresh,
\* or settled with a token, with null, or by throwing
NoCall == [kind |-> "none", inst |-> GW, tok |-> 0]
Pending(i) == [kind |-> "pending", inst |-> i, tok |-> 0]
Got(t) == [kind |-> "token", inst |-> GW, tok |-> t]
Failed(k) == [kind |-> k, inst |-> GW, tok |-> 0]
FailKinds == {"null", "throw"}

NoData == "null"
NoReq == [method |-> "GET", path |-> <<>>, data |-> NoData, params |-> <<>>]

\* type, status and body are what the error message says; statusCode is the
\* err.statusCode property (0 when the error has none)
NoOutcome == [kind |-> "none", type |-> "none", statusCode |-> 0,
              status |-> 0, inner |-> "none", page |-> 0, body |-> "none"]
Resolved(k) == [NoOutcome EXCEPT !.kind = "resolved", !.page = k]
Rejected(type, statusCode, status, inner) ==
  [kind |-> "rejected", type |-> type, statusCode |-> statusCode,
   status |-> status, inner |-> inner, page |-> 0, body |-> "none"]

\* variant, given: the handleCreateDraft source that runs and what its args
\* held; tokenCalls: getValidAccessToken() calls made by the handler itself;
\* apiCalls: callGraphAPI calls made; attempts: HTTP requests sent;
\* refreshCalls: refresh calls made by the gateway on a 401; settles: times
\* the promise of the current callGraphAPI call settled
NoHist == [variant |-> "none", given |-> "none", tokenCalls |-> 0, authFailed |-> FALSE,
           apiCalls |-> 0, attempts |-> 0, refreshCalls |-> 0, settles |-> 0]

NoPaging == [method |-> "none", accessToken |-> 0, allItems |-> <<>>,
             currentUrl |-> <<>>, currentParams |-> <<>>, maxCount |-> 0,
             asked |-> <<>>, value |-> <<>>, count |-> 0,
             error |-> NoOutcome]

\* a JSON-RPC request as the fallback request handler sees it; "absent" is
\* a property that is not there, "null" a JSON null, the others are objects
NoRequest == [present |-> FALSE, method |-> "none", hasParams |-> FALSE,
              name |-> "absent", arguments |-> "absent", input |-> "absent",
              nested |-> "absent"]

NoResponse == [kind |-> "none", code |-> 0, message |-> "none"]

NoRpc == [version |-> "none", request |-> NoRequest, phase |-> "none",
          invoked |-> 0, passed |-> "none", response |-> NoResponse]

(* ------------------------------------------------------------------ *)
(* TokenStorage.getValidAccessToken and the refresh grant              *)
(* ------------------------------------------------------------------ *)
\* What a call on instance i by caller p does at once: it loads the
\* Credential; a valid one is returned, a missing or unrefreshable one fails,
\* an expired one joins the instance's refresh or starts it.
GetValidAccessToken(p, i) ==
  IF ~stored.present \/ (stored.expired /\ ~stored.hasRefresh)
    THEN /\ \E k \in FailKinds : tokRes' = [tokRes EXCEPT ![p] = Failed(k)]
         /\ UNCHANGED <<inflight, netCalls>>
  ELSE IF ~stored.expired
    THEN /\ tokRes' = [tokRes EXCEPT ![p] = Got(stored.access)]
         /\ UNCHANGED <<inflight, netCalls>>
  ELSE /\ tokRes' = [tokRes EXCEPT ![p] = Pending(i)]
       /\ inflight' = [inflight EXCEPT ![i] = TRUE]
       /\ netCalls' = IF inflight[i] THEN netCalls ELSE netCalls + 1

Waiters(i) == {p \in Procs : tokRes[p] = Pending(i)}

\* The refresh grant of instance i succeeds: the provider mints a token, the
\* new Credential replaces the stored one and every waiter receives it.
RefreshSucceeds(i) ==
  /\ inflight[i]
  /\ issued' = issued + 1
  /\ stored' = Cred(issued + 1, TRUE, FALSE)
  /\ inflight' = [inflight EXCEPT ![i] = FALSE]
  /\ tokRes' = [p \in Procs |->
                  IF p \in Waiters(i) THEN Got(issued + 1) ELSE tokRes[p]]
  /\ UNCHANGED <<pc, op, token, req, sent, fresh, gwCalls, netCalls, outcome,
                 result, paging, pages, urlIn, urlOut, rpc>>
  /\ UNCHANGED hist

\* The refresh grant of instance i is denied, times out or hits a network
\* error: the stored Credential stays and every waiter gets the failure.
RefreshFails(i) ==
  /\ inflight[i]
  /\ inflight' = [inflight EXCEPT ![i] = FALSE]
  /\ \E k \in FailKinds :
       tokRes' = [p \in Procs |->
                    IF p \in Waiters(i) THEN Failed(k) ELSE tokRes[p]]
  /\ UNCHANGED <<stored, issued, pc, op, token, req, sent, fresh, gwCalls,
                 netCalls, outcome, result, paging, pages, urlIn, urlOut, rpc>>
  /\ UNCHANGED hist

\* Time passes: the stored access token comes within the safety margin.
Expire ==
  /\ stored.present
  /\ ~stored.expired
  /\ stored' = [stored EXCEPT !.expired = TRUE]
  /\ UNCHANGED <<issued, inflight, pc, op, tokRes, token, req, sent, fresh,
                 gwCalls, netCalls, outcome, result, paging, pages, urlIn,
                 urlOut, rpc>>
  /\ UNCHANGED hist

(* ------------------------------------------------------------------ *)
(* callGraphAPI                                                        *)
(* ------------------------------------------------------------------ *)
Statuses == {200, 401, 404}
BodyMethods == {"POST", "PATCH", "PUT"}

\* the request put on the wire by one invocation
Attempt(tok, r) ==
  [token  |-> tok,
   method |-> r.method,
   url    |-> FinalUrl(r.path, r.params),
   body   |-> IF r.data # NoData /\ r.method \in BodyMethods
                THEN r.data ELSE NoData,
   status |-> 0,
   answer |-> "none"]

\* response bodies: one that JSON.parse accepts and one it does not
Bodies == {"json", "text"}
Parses(body) == body = "json"

\* the responses the server gives: a status with a raw body
Answers == { a \in Statuses \X Bodies : a[1] = 401 => a[2] = "json" }

\* the response to the attempt in flight has arrived: its status and its raw
\* body (-1 stands for the 'error' event)
Answered(attempts, statusCode, body) ==
  [attempts EXCEPT ![Len(attempts)].status = statusCode,
                   ![Len(attempts)].answer = body]

\* One invocation up to req.end(): the URL is built (which may delete $filter
\* from the caller's queryParams object) and the request is sent.
Invoke(p, tok, r, earlier) ==
  /\ token' = [token EXCEPT ![p] = tok]
  /\ req' = [req EXCEPT ![p] =
               [r EXCEPT !.params = ParamsAfterBuild(r.path, r.params)]]
  /\ sent' = [sent EXCEPT ![p] = Append(earlier, Attempt(tok, r))]

\* a new logical request: callGraphAPI called with _isRetry defaulted to false
NewRequest(p, tok, r) ==
  /\ Invoke(p, tok, r, <<>>)
  /\ fresh' = [fresh EXCEPT ![p] = NoCall]
  /\ gwCalls' = [gwCalls EXCEPT ![p] = 0]
  /\ outcome' = [outcome EXCEPT ![p] = NoOutcome]
  /\ pc' = [pc EXCEPT ![p] = "attempt1"]
  /\ hist' = [hist EXCEPT ![p].apiCalls = @ + 1, ![p].attempts = @ + 1,
                          ![p].settles = 0]

IsSuccess(statusCode) == statusCode >= 200 /\ statusCode < 300

RefreshAndRetryAlways(statusCode, isRetry) == statusCode = 401

RefreshAndRetry(statusCode, isRetry) == statusCode = 401 /\ ~isRetry

HasFreshOrNull(r) == r.kind \in {"token", "null"}

ResumesUnlessThrown(r) == r.kind \in {"token", "null"}

\* an awaited getValidAccessToken() call lets its caller go on: it returned,
\* or it threw into the caller's catch block
Resumes(r) == r.kind \in {"token", "null", "throw"}

\* "if (!fresh) { reject(...); return; }" is passed
HasFresh(r) == r.kind = "token"

\* the page a 2xx response carries: the one the cursor names, else the first
CursorUrl(k) == HTTPS_PREFIX \o <<"g", "/", "n", "x", "t">> \o
                <<CASE k = 1 -> "1" [] k = 2 -> "2" [] k = 3 -> "3"
                    [] k = 4 -> "4" [] OTHER -> "5">>
PageOfUrl(url) ==
  IF \E k \in 1..Len(pages) : url = CursorUrl(k)
    THEN CHOOSE k \in 1..Len(pages) : url = CursorUrl(k)
    ELSE 1

\* how the promise of the first invocation settles when the retry settles
\* with inner: the retry is awaited inside the try block of the 401 branch
AfterRetry(inner) ==
  IF inner.kind = "resolved" THEN inner
  ELSE [Rejected("unauthorized", 401, inner.status, inner.type)
          EXCEPT !.body = inner.body]

\* how an invocation settles on a response it does not retry
SettleWithoutBody(statusCode, body, url) ==
  IF IsSuccess(statusCode)
    THEN IF Parses(body) THEN Resolved(PageOfUrl(url))
                         ELSE Rejected("parse", 0, statusCode, "none")
    ELSE Rejected("api", 0, statusCode, "none")

Settle(statusCode, body, url) ==
  IF IsSuccess(statusCode)
    THEN IF Parses(body) THEN Resolved(PageOfUrl(url))
                         ELSE Rejected("parse", 0, statusCode, "none")
    ELSE [Rejected("api", 0, statusCode, "none") EXCEPT !.body = body]

\* res.on('end'): a 2xx settles the promise, a 401 on the first attempt calls
\* tokenStorage.getValidAccessToken() and awaits it, anything else rejects
Response(p, statusCode, body) ==
  /\ pc[p] \in {"attempt1", "attempt2"}
  /\ LET isRetry == pc[p] = "attempt2"
         settled == Settle(statusCode, body, sent[p][Len(sent[p])].url)
     IN IF ~IsSuccess(statusCode) /\ RefreshAndRetry(statusCode, isRetry)
          THEN /\ GetValidAccessToken(p, GW)
               /\ gwCalls' = [gwCalls EXCEPT ![p] = @ + 1]
               /\ hist' = [hist EXCEPT ![p].refreshCalls = @ + 1]
               /\ pc' = [pc EXCEPT ![p] = "refresh"]
               /\ UNCHANGED outcome
          ELSE /\ outcome' = [outcome EXCEPT ![p] =
                    IF isRetry THEN AfterRetry(settled) ELSE settled]
               /\ hist' = [hist EXCEPT ![p].settles = @ + 1]
               /\ pc' = [pc EXCEPT ![p] = "settled"]
               /\ UNCHANGED <<tokRes, inflight, netCalls, gwCalls>>
  /\ sent' = [sent EXCEPT ![p] = Answered(@, statusCode, body)]
  /\ UNCHANGED <<stored, issued, op, token, req, fresh, result, paging,
                 pages, urlIn, urlOut, rpc>>

\* "const fresh = await tokenStorage.getValidAccessToken()" resumes: without a
\* token the request is rejected, with one the same call is made again
Retry(p) ==
  /\ pc[p] = "refresh"
  /\ Resumes(tokRes[p])
  /\ fresh' = [fresh EXCEPT ![p] = tokRes[p]]
  /\ tokRes' = [tokRes EXCEPT ![p] = NoCall]
  /\ IF HasFresh(tokRes[p])
       THEN /\ Invoke(p, tokRes[p].tok, req[p], sent[p])
            /\ hist' = [hist EXCEPT ![p].attempts = @ + 1]
            /\ pc' = [pc EXCEPT ![p] = "attempt2"]
            /\ UNCHANGED outcome
       ELSE /\ outcome' = [outcome EXCEPT ![p] =
                 IF tokRes[p].kind = "null"
                   THEN Rejected("unauthorized", 0, 401, "none")
                   ELSE Rejected("unauthorized", 401, 401, "refresh")]
            /\ hist' = [hist EXCEPT ![p].settles = @ + 1]
            /\ pc' = [pc EXCEPT ![p] = "settled"]
            /\ UNCHANGED <<token, req, sent>>
  /\ UNCHANGED <<stored, issued, inflight, op, gwCalls, netCalls, result,
                 paging, pages, urlIn, urlOut, rpc>>

\* req.on('error') of either attempt
NetworkError(p) ==
  /\ pc[p] \in {"attempt1", "attempt2"}
  /\ outcome' = [outcome EXCEPT ![p] =
       IF pc[p] = "attempt1" THEN Rejected("network", 0, 0, "none")
       ELSE AfterRetry(Rejected("network", 0, 0, "none"))]
  /\ pc' = [pc EXCEPT ![p] = "settled"]
  /\ hist' = [hist EXCEPT ![p].settles = @ + 1]
  /\ sent' = [sent EXCEPT ![p] = Answered(@, -1, "none")]
  /\ UNCHANGED <<stored, issued, inflight, op, tokRes, token, req, fresh,
                 gwCalls, netCalls, result, paging, pages, urlIn, urlOut, rpc>>

(* ------------------------------------------------------------------ *)
(* Callers                                                             *)
(* ------------------------------------------------------------------ *)
PATH_MESSAGES == <<"m","e","/","m","e","s","s","a","g","e","s">>
KEY_TOP == <<"$","t","o","p">>
FILTER_HELLO == <<"s"," ","e","q"," ","'","a"," ","b","'">>

ApiParams ==
  { <<>>,
    << <<KEY_TOP, <<"5">>>> >>,
    << <<FILTER_KEY, FILTER_HELLO>> >>,
    << <<KEY_TOP, <<"5">>>>, <<FILTER_KEY, FILTER_HELLO>> >> }

ApiRequests ==
  { [method |-> "GET", path |-> pa, data |-> NoData, params |-> ps] :
      pa \in {PATH_MESSAGES, CursorUrl(2)}, ps \in ApiParams }
  \cup { [method |-> "POST", path |-> PATH_MESSAGES, data |-> "draft",
          params |-> <<>>] }

PATH_DRAFTS ==
  <<"m","e","/","m","a","i","l","F","o","l","d","e","r","s","/",
    "d","r","a","f","t","s","/","m","e","s","s","a","g","e","s">>

\* the two handleCreateDraft sources of the repository
Variants == {"drafts", "messages"}

\* the one with the direct-TokenStorage fallback around ensureAuthenticated()
HasFallback(variant) == variant = "messages"

\* the one that destructures "args || {}" rather than "args"
DefaultsArgs(variant) == variant = "messages"

DraftRequest(variant) ==
  [method |-> "POST",
   path |-> IF variant = "drafts" THEN PATH_DRAFTS ELSE PATH_MESSAGES,
   data |-> "draft",
   params |-> <<>>]

\* a caller holding some access token calls callGraphAPI directly
StartCallGraphAPI(p, tok, r) ==
  /\ pc[p] = "idle"
  /\ op' = [op EXCEPT ![p] = "api"]
  /\ NewRequest(p, tok, r)
  /\ UNCHANGED <<stored, issued, inflight, tokRes, netCalls, result, paging,
                 pages, urlIn, urlOut, rpc>>

\* what the catch block of handleCreateDraft returns for an error message
CatchDraftAnyAuth(message) ==
  IF message \in {"Authentication required", "UNAUTHORIZED"}
    THEN "authRequired" ELSE "errorCreatingDraft"

CatchDraft(message) ==
  IF message = "Authentication required" THEN "authRequired"
                                         ELSE "errorCreatingDraft"

\* the message of the error a failed token acquisition ends in: null makes
\* the caller throw 'Authentication required', a throw keeps its own message
AuthErrorMessage(r) ==
  IF r.kind = "null" THEN "Authentication required" ELSE "refresh threw"

\* the message of the error callGraphAPI rejects with
RejectionMessage(o) ==
  IF o.type = "unauthorized" THEN "UNAUTHORIZED" ELSE o.type

\* the args a tool call hands over: none at all, or an object in which
\* subject and body are each truthy or not
DraftArgs ==
  { [present |-> FALSE, subject |-> FALSE, body |-> FALSE] }
  \cup { [present |-> TRUE, subject |-> su, body |-> bo] :
           su \in BOOLEAN, bo \in BOOLEAN }

\* what the args hold: nothing at all, an object with neither subject nor
\* body, or an object with at least one of them
Given(args) ==
  IF ~args.present THEN "nothing"
  ELSE IF args.subject \/ args.body THEN "some" ELSE "neither"

NothingToDraftWithoutSubject(args) == ~args.subject

\* "if (!subject && !body)"
NothingToDraft(args) == ~args.subject /\ ~args.body

\* handleCreateDraft(args) up to its first await: the destructuring of args,
\* the validation, then ensureAuthenticated() with its own TokenStorage
StartCreateDraft(p, variant, args) ==
  /\ pc[p] = "idle"
  /\ op' = [op EXCEPT ![p] = "draft"]
  /\ IF ~args.present /\ ~DefaultsArgs(variant)
       THEN /\ result' = [result EXCEPT ![p] = "thrown"]
            /\ pc' = [pc EXCEPT ![p] = "done"]
            /\ hist' = [hist EXCEPT ![p].variant = variant,
                                    ![p].given = Given(args)]
            /\ UNCHANGED <<tokRes, inflight, netCalls>>
       ELSE IF NothingToDraft(args)
       THEN /\ result' = [result EXCEPT ![p] = "validation"]
            /\ pc' = [pc EXCEPT ![p] = "done"]
            /\ hist' = [hist EXCEPT ![p].variant = variant,
                                    ![p].given = Given(args)]
            /\ UNCHANGED <<tokRes, inflight, netCalls>>
       ELSE /\ GetValidAccessToken(p, EA(p))
            /\ pc' = [pc EXCEPT ![p] = "ea"]
            /\ hist' = [hist EXCEPT ![p].variant = variant,
                                    ![p].given = Given(args),
                                    ![p].tokenCalls = @ + 1]
            /\ UNCHANGED result
  /\ UNCHANGED <<stored, issued, token, req, sent, fresh, gwCalls, outcome,
                 paging, pages, urlIn, urlOut, rpc>>

\* ensureAuthenticated() returns a token and the draft is posted
EnsureAuthenticatedReturns(p) ==
  /\ pc[p] = "ea"
  /\ tokRes[p].kind = "token"
  /\ NewRequest(p, tokRes[p].tok, DraftRequest(hist[p].variant))
  /\ tokRes' = [tokRes EXCEPT ![p] = NoCall]
  /\ UNCHANGED <<stored, issued, inflight, op, netCalls, result, paging,
                 pages, urlIn, urlOut, rpc>>

\* ensureAuthenticated() throws: with the fallback, another TokenStorage is
\* constructed and asked for a token; without it, the catch block answers
EnsureAuthenticatedThrows(p) ==
  /\ pc[p] = "ea"
  /\ tokRes[p].kind \in FailKinds
  /\ IF HasFallback(hist[p].variant)
       THEN /\ GetValidAccessToken(p, FB(p))
            /\ pc' = [pc EXCEPT ![p] = "fb"]
            /\ hist' = [hist EXCEPT ![p].authFailed = TRUE,
                                    ![p].tokenCalls = @ + 1]
            /\ UNCHANGED result
       ELSE /\ tokRes' = [tokRes EXCEPT ![p] = NoCall]
            /\ result' = [result EXCEPT ![p] =
                 CatchDraft(AuthErrorMessage(tokRes[p]))]
            /\ pc' = [pc EXCEPT ![p] = "done"]
            /\ hist' = [hist EXCEPT ![p].authFailed = TRUE]
            /\ UNCHANGED <<inflight, netCalls>>
  /\ UNCHANGED <<stored, issued, op, token, req, sent, fresh, gwCalls,
                 outcome, paging, pages, urlIn, urlOut, rpc>>

\* the fallback's getValidAccessToken() settles
FallbackReturns(p) ==
  /\ pc[p] = "fb"
  /\ tokRes[p].kind \in {"token"} \cup FailKinds
  /\ tokRes' = [tokRes EXCEPT ![p] = NoCall]
  /\ IF tokRes[p].kind = "token"
       THEN /\ NewRequest(p, tokRes[p].tok, DraftRequest(hist[p].variant))
            /\ UNCHANGED result
       ELSE /\ result' = [result EXCEPT ![p] =
                 CatchDraft(AuthErrorMessage(tokRes[p]))]
            /\ pc' = [pc EXCEPT ![p] = "done"]
            /\ UNCHANGED <<token, req, sent, fresh, gwCalls, outcome, hist>>
  /\ UNCHANGED <<stored, issued, inflight, op, netCalls, paging, pages,
                 urlIn, urlOut, rpc>>

\* callGraphAPI settles inside handleCreateDraft
CreateDraftReturns(p) ==
  /\ pc[p] = "settled"
  /\ op[p] = "draft"
  /\ result' = [result EXCEPT ![p] =
       IF outcome[p].kind = "resolved" THEN "created"
       ELSE CatchDraft(RejectionMessage(outcome[p]))]
  /\ pc' = [pc EXCEPT ![p] = "done"]
  /\ UNCHANGED <<stored, issued, inflight, op, tokRes, token, req, sent,
                 fresh, gwCalls, netCalls, outcome, paging, pages, urlIn,
                 urlOut, rpc>>
  /\ UNCHANGED hist

(* ------------------------------------------------------------------ *)
(* callGraphAPIPaginated                                               *)
(* ------------------------------------------------------------------ *)
NoValue == [hasValue |-> FALSE, value |-> <<>>]

\* a 2xx body: the value array when there is one, and whether it carries
\* '@odata.nextLink'
Page(v, hasNext) == [hasValue |-> v.hasValue, value |-> v.value, next |-> hasNext]

PaginationSupportsAll(method) == TRUE

PaginationSupports(method) == method = "GET"

\* "if (response.value && Array.isArray(response.value)) allItems.push(...)"
Accumulate(allItems, response) ==
  IF response.hasValue THEN allItems \o response.value ELSE allItems

NeverReachedMax(maxCount, allItems) == FALSE

\* "if (maxCount > 0 && allItems.length >= maxCount) break"
ReachedMax(maxCount, allItems) == maxCount > 0 /\ Len(allItems) >= maxCount

FinalItemsUntrimmed(maxCount, allItems) == allItems

\* "maxCount > 0 ? allItems.slice(0, maxCount) : allItems"
FinalItems(maxCount, allItems) ==
  IF maxCount > 0
    THEN SubSeq(allItems, 1, IF maxCount < Len(allItems) THEN maxCount
                                                        ELSE Len(allItems))
    ELSE allItems

PageRequest(path, params) ==
  [method |-> "GET", path |-> path, data |-> NoData, params |-> params]

\* callGraphAPIPaginated up to its first await
StartPaginated(p, tok, method, path, params, maxCount) ==
  /\ pc[p] = "idle"
  /\ op' = [op EXCEPT ![p] = "paged"]
  /\ IF ~PaginationSupports(method)
       THEN /\ paging' = [paging EXCEPT !.method = method,
                                        !.accessToken = tok,
                                        !.maxCount = maxCount]
            /\ result' = [result EXCEPT ![p] = "unsupported"]
            /\ pc' = [pc EXCEPT ![p] = "done"]
            /\ UNCHANGED <<token, req, sent, fresh, gwCalls, outcome, hist>>
       ELSE /\ paging' = [paging EXCEPT
                 !.method = method, !.accessToken = tok,
                 !.maxCount = maxCount, !.currentUrl = path,
                 !.currentParams = params,
                 !.asked = <<[url |-> path, params |-> params, have |-> 0]>>]
            /\ NewRequest(p, tok, PageRequest(path, params))
            /\ UNCHANGED result
  /\ UNCHANGED <<stored, issued, inflight, tokRes, netCalls, pages, urlIn,
                 urlOut, rpc>>

PageTokenLatest(accessToken, latest) == latest

\* the token a page request is made with: the accessToken parameter of
\* callGraphAPIPaginated, whatever token the previous page ended up using
PageToken(accessToken, latest) == accessToken

LoopContinuesOnValue(maxCount, allItems, response) ==
  ~ReachedMax(maxCount, allItems) /\ response.next /\ response.hasValue

\* the do-while goes round again: no break on maxCount, and currentUrl was
\* set from the response's '@odata.nextLink'
LoopContinues(maxCount, allItems, response) ==
  ~ReachedMax(maxCount, allItems) /\ response.next

CatchPaginatedPartial(error, allItems) ==
  [result |-> "collected", value |-> allItems, error |-> NoOutcome]

\* the catch block of callGraphAPIPaginated: the error is logged and thrown
\* again, nothing of allItems is returned
CatchPaginated(error, allItems) ==
  [result |-> "error", value |-> <<>>, error |-> error]

\* the awaited callGraphAPI settles: one pass of the do-while body, then
\* either the next page request or the trimmed result
PageReturns(p) ==
  /\ pc[p] = "settled"
  /\ op[p] = "paged"
  /\ IF outcome[p].kind = "rejected"
       THEN LET caught == CatchPaginated(outcome[p], paging.allItems)
            IN /\ result' = [result EXCEPT ![p] = caught.result]
               /\ paging' = [paging EXCEPT !.value = caught.value,
                                           !.count = Len(caught.value),
                                           !.error = caught.error]
               /\ pc' = [pc EXCEPT ![p] = "done"]
               /\ UNCHANGED <<token, req, sent, fresh, gwCalls, outcome,
                              hist>>
       ELSE LET response == pages[outcome[p].page]
                allItems == Accumulate(paging.allItems, response)
                nextLink == CursorUrl(outcome[p].page + 1)
            IN IF LoopContinues(paging.maxCount, allItems, response)
                 THEN /\ paging' = [paging EXCEPT
                           !.allItems = allItems,
                           !.currentUrl = nextLink,
                           !.currentParams = <<>>,
                           !.asked = Append(@, [url |-> nextLink,
                                                params |-> <<>>,
                                                have |-> Len(allItems)])]
                      /\ NewRequest(p, PageToken(paging.accessToken,
                                                 sent[p][Len(sent[p])].token),
                                    PageRequest(nextLink, <<>>))
                      /\ UNCHANGED result
                 ELSE /\ paging' = [paging EXCEPT
                           !.allItems = allItems,
                           !.value = FinalItems(paging.maxCount, allItems),
                           !.count = Len(FinalItems(paging.maxCount, allItems))]
                      /\ result' = [result EXCEPT ![p] = "collected"]
                      /\ pc' = [pc EXCEPT ![p] = "done"]
                      /\ UNCHANGED <<token, req, sent, fresh, gwCalls, outcome,
                                     hist>>
  /\ UNCHANGED <<stored, issued, inflight, op, tokRes, netCalls, pages, urlIn,
                 urlOut, rpc>>

(* ------------------------------------------------------------------ *)
(* Specification of the gateway and the token layer                    *)
(* ------------------------------------------------------------------ *)
NoUrl == [path |-> <<>>, params |-> <<>>, url |-> <<>>, built |-> FALSE]

InitProcs ==
  /\ inflight = [i \in Inst |-> FALSE]
  /\ pc = [p \in Procs |-> "idle"]
  /\ op = [p \in Procs |-> "none"]
  /\ tokRes = [p \in Procs |-> NoCall]
  /\ token = [p \in Procs |-> 0]
  /\ req = [p \in Procs |-> NoReq]
  /\ sent = [p \in Procs |-> <<>>]
  /\ fresh = [p \in Procs |-> NoCall]
  /\ gwCalls = [p \in Procs |-> 0]
  /\ netCalls = 0
  /\ outcome = [p \in Procs |-> NoOutcome]
  /\ result = [p \in Procs |-> "none"]
  /\ hist = [p \in Procs |-> NoHist]

InitStore ==
  /\ issued = 1
  /\ stored \in {NoCred} \cup {Cred(1, r, e) : r \in BOOLEAN, e \in BOOLEAN}

Init ==
  /\ InitStore
  /\ InitProcs
  /\ paging = NoPaging
  /\ pages = <<>>
  /\ urlIn = NoUrl
  /\ urlOut = NoUrl
  /\ rpc = NoRpc

Next ==
  \/ \E p \in Procs, r \in ApiRequests : \E t \in 1..issued :
       StartCallGraphAPI(p, t, r)
  \/ \E p \in Procs, variant \in Variants, args \in DraftArgs :
       StartCreateDraft(p, variant, args)
  \/ \E p \in Procs : EnsureAuthenticatedReturns(p)
  \/ \E p \in Procs : EnsureAuthenticatedThrows(p)
  \/ \E p \in Procs : FallbackReturns(p)
  \/ \E p \in Procs : CreateDraftReturns(p)
  \/ \E p \in Procs, a \in Answers : Response(p, a[1], a[2])
  \/ \E p \in Procs : Retry(p)
  \/ \E p \in Procs : NetworkError(p)
  \/ \E i \in Inst : RefreshSucceeds(i)
  \/ \E i \in Inst : RefreshFails(i)
  \/ Expire

Spec == Init /\ [][Next]_vars

(* ------------------------------------------------------------------ *)
(* Specification of one paginated collection                           *)
(* ------------------------------------------------------------------ *)
Pager == "p1"

\* sizes[k] is the length of page k's value array, -1 when it has none;
\* items are numbered 1, 2, ... in collection order
RECURSIVE Chain(_, _)
Chain(sizes, first) ==
  IF sizes = <<>> THEN <<>>
  ELSE LET n == Head(sizes)
           v == IF n < 0 THEN NoValue
                ELSE [hasValue |-> TRUE,
                      value |-> [i \in 1..n |-> first + i - 1]]
       IN <<Page(v, Len(sizes) > 1)>>
          \o Chain(Tail(sizes), first + (IF n < 0 THEN 0 ELSE n))

Chains ==
  UNION { { Chain(sizes, 1) : sizes \in [1..n -> -1..MaxPageSize] } :
          n \in 1..MaxPages }

PagedParams == { <<>>, << <<KEY_TOP, <<"5">>>>, <<FILTER_KEY, FILTER_HELLO>> >> }

InitPaginated ==
  /\ InitStore
  /\ InitProcs
  /\ paging = NoPaging
  /\ pages \in Chains
  /\ urlIn = NoUrl
  /\ urlOut = NoUrl
  /\ rpc = NoRpc

NextPaginated ==
  \/ \E method \in {"GET", "POST"}, path \in {PATH_MESSAGES, CursorUrl(1)},
        params \in PagedParams, maxCount \in 0..MaxCountBound :
       StartPaginated(Pager, 1, method, path, params, maxCount)
  \/ PageReturns(Pager)
  \/ \E a \in Answers : Response(Pager, a[1], a[2])
  \/ Retry(Pager)
  \/ NetworkError(Pager)
  \/ RefreshSucceeds(GW)
  \/ RefreshFails(GW)
  \/ Expire

SpecPaginated == InitPaginated /\ [][NextPaginated]_vars

\* every HTTP request is answered or errors, every refresh grant settles, and
\* the awaits of the gateway and of the pagination loop resume
FairPaginated ==
  /\ WF_vars(PageReturns(Pager))
  /\ WF_vars((\E a \in Answers : Response(Pager, a[1], a[2]))
               \/ NetworkError(Pager))
  /\ WF_vars(Retry(Pager))
  /\ WF_vars(RefreshSucceeds(GW) \/ RefreshFails(GW))

\* the chains whose pages are full or have no value array
FullPageChains ==
  UNION { { Chain(sizes, 1) : sizes \in [1..n -> {-1, MaxPageSize}] } :
          n \in 1..MaxPages }

InitPaginatedFair ==
  /\ InitStore
  /\ InitProcs
  /\ paging = NoPaging
  /\ pages \in FullPageChains
  /\ urlIn = NoUrl
  /\ urlOut = NoUrl
  /\ rpc = NoRpc

SpecPaginatedFair ==
  InitPaginatedFair /\ [][NextPaginated]_vars /\ FairPaginated

(* ------------------------------------------------------------------ *)
(* Specification of concurrent callGraphAPI calls under fairness       *)
(* ------------------------------------------------------------------ *)
CallRequests == { r \in ApiRequests : r.path = PATH_MESSAGES /\ r.params = <<>> }

NextCalls ==
  \/ \E p \in Procs, r \in CallRequests : \E t \in 1..issued :
       StartCallGraphAPI(p, t, r)
  \/ \E p \in Procs, a \in Answers : Response(p, a[1], a[2])
  \/ \E p \in Procs : Retry(p)
  \/ \E p \in Procs : NetworkError(p)
  \/ RefreshSucceeds(GW)
  \/ RefreshFails(GW)
  \/ Expire

\* every HTTP request is answered or errors, every refresh grant settles, and
\* the await on getValidAccessToken() resumes
FairCalls ==
  /\ \A p \in Procs :
       /\ WF_vars((\E a \in Answers : Response(p, a[1], a[2]))
                    \/ NetworkError(p))
       /\ WF_vars(Retry(p))
  /\ WF_vars(RefreshSucceeds(GW) \/ RefreshFails(GW))

SpecCalls == Init /\ [][NextCalls]_vars /\ FairCalls

(* ------------------------------------------------------------------ *)
(* Specification of the URL construction alone                         *)
(* ------------------------------------------------------------------ *)
UrlPaths ==
  { PATH_MESSAGES, <<"a"," ","b","/","c","?">>, CursorUrl(1),
    HTTP_PREFIX \o <<"x","?","a","=","1">> }

UrlKeys == { KEY_TOP, FILTER_KEY, <<"q">> }

UrlValues ==
  { <<>>, <<"5">>, FILTER_HELLO, <<"a","&","b">>, <<"a","=","?">>,
    <<"a","+","b">>, <<"$","%">> }

ParamMaps ==
  UNION { { m \in [1..n -> UrlKeys \X UrlValues] :
              \A i, j \in 1..n : i # j => m[i][1] # m[j][1] } :
          n \in 0..MaxParams }

InitUrl ==
  /\ InitStore
  /\ stored = NoCred
  /\ InitProcs
  /\ paging = NoPaging
  /\ pages = <<>>
  /\ urlIn \in { [path |-> pa, params |-> ps, url |-> <<>>, built |-> FALSE] :
                   pa \in UrlPaths, ps \in ParamMaps }
  /\ urlOut = NoUrl
  /\ rpc = NoRpc

\* lines 43-90 of callGraphAPI applied to urlIn
BuildUrl ==
  /\ ~urlOut.built
  /\ urlOut' = [path   |-> urlIn.path,
                params |-> ParamsAfterBuild(urlIn.path, urlIn.params),
                url    |-> FinalUrl(urlIn.path, urlIn.params),
                built  |-> TRUE]
  /\ UNCHANGED <<stored, issued, inflight, pc, op, tokRes, token, req, sent,
                 fresh, gwCalls, netCalls, outcome, result, paging, pages,
                 urlIn>>
  /\ UNCHANGED <<hist, rpc>>

NextUrl == BuildUrl

SpecUrl == InitUrl /\ [][NextUrl]_vars

(* ------------------------------------------------------------------ *)
(* server.fallbackRequestHandler                                       *)
(* ------------------------------------------------------------------ *)
\* the two sources of the handler in the repository
HandlerVersions == {"destructuring", "coalescing"}

ListMethods == {"initialize", "tools/list", "resources/list", "prompts/list"}
Methods == ListMethods \cup {"tools/call", "ping"}

\* TOOLS: the names registered, and those registered with a handler
ToolNames == {"create-draft", "about"}
ToolsWithHandler == {"create-draft"}

Requests ==
  { NoRequest }
  \cup { [NoRequest EXCEPT !.present = TRUE, !.method = me] : me \in Methods }
  \cup { [present |-> TRUE, method |-> me, hasParams |-> TRUE, name |-> na,
           arguments |-> ar, input |-> inp, nested |-> ne] :
           me \in Methods,
           na \in ToolNames \cup {"absent", "send-fax"},
           ar \in {"absent", "null", "{}", "{to}"},
           inp \in {"absent", "{}", "{subject}"},
           ne \in {"absent", "{body}"} }

\* a ?? b ?? ... ?? {}
RECURSIVE Coalesce(_)
Coalesce(values) ==
  IF values = <<>> THEN "{}"
  ELSE IF Head(values) \in {"absent", "null"} THEN Coalesce(Tail(values))
  ELSE Head(values)

ExtractArgsWithoutDefault(version, r) ==
  IF version = "destructuring" THEN r.arguments
  ELSE IF r.arguments # "absent" THEN r.arguments ELSE r.input

\* the args handed to the tool handler: "arguments: args = {}" of
\* "params || {}" in one source, the ?? chain in the other
ExtractArgs(version, r) ==
  IF version = "destructuring"
    THEN IF r.arguments = "absent" THEN "{}" ELSE r.arguments
    ELSE Coalesce(<<r.arguments, r.input, r.nested>>)

\* TOOLS.find(t => t.name === name) finds a tool that has a handler
FindsHandler(name) == name \in ToolNames /\ name \in ToolsWithHandler

Returned(what) == [kind |-> "result", code |-> 0, message |-> what]
ErrorResponse(code, message) ==
  [kind |-> "error", code |-> code, message |-> message]

\* the handler up to its return or to its await on the tool handler
Dispatch ==
  /\ rpc.phase = "received"
  /\ LET r == rpc.request
         answer(response) ==
           [rpc EXCEPT !.phase = "returned", !.response = response]
     IN rpc' =
          IF ~r.present
            THEN answer(ErrorResponse(-32603, "Error processing request"))
          ELSE IF r.method \in ListMethods
            THEN answer(Returned(r.method))
          ELSE IF r.method = "tools/call"
            THEN IF FindsHandler(r.name)
                   THEN [rpc EXCEPT !.phase = "inHandler",
                                    !.invoked = @ + 1,
                                    !.passed = ExtractArgs(rpc.version, r)]
                   ELSE answer(ErrorResponse(-32601, "Tool not found"))
          ELSE answer(ErrorResponse(-32601, "Method not found"))
  /\ UNCHANGED <<stored, issued, inflight, pc, op, tokRes, token, req, sent,
                 fresh, gwCalls, netCalls, outcome, result, hist, paging,
                 pages, urlIn, urlOut>>

\* "return await tool.handler(args)": the tool handler's promise resolves
ToolHandlerReturns ==
  /\ rpc.phase = "inHandler"
  /\ rpc' = [rpc EXCEPT !.phase = "returned",
                        !.response = Returned("tool content")]
  /\ UNCHANGED <<stored, issued, inflight, pc, op, tokRes, token, req, sent,
                 fresh, gwCalls, netCalls, outcome, result, hist, paging,
                 pages, urlIn, urlOut>>

\* the catch block around the tool call
CatchToolCall == ErrorResponse(-32603, "Error processing tool call")

\* the tool handler throws or its promise rejects
ToolHandlerThrows ==
  /\ rpc.phase = "inHandler"
  /\ rpc' = [rpc EXCEPT !.phase = "returned", !.response = CatchToolCall]
  /\ UNCHANGED <<stored, issued, inflight, pc, op, tokRes, token, req, sent,
                 fresh, gwCalls, netCalls, outcome, result, hist, paging,
                 pages, urlIn, urlOut>>

InitHandler ==
  /\ InitStore
  /\ stored = NoCred
  /\ InitProcs
  /\ paging = NoPaging
  /\ pages = <<>>
  /\ urlIn = NoUrl
  /\ urlOut = NoUrl
  /\ rpc \in { [NoRpc EXCEPT !.version = v, !.request = r,
                              !.phase = "received"] :
                  v \in HandlerVersions, r \in Requests }

NextHandler ==
  \/ Dispatch
  \/ ToolHandlerReturns
  \/ ToolHandlerThrows

SpecHandler == InitHandler /\ [][NextHandler]_vars

(* ------------------------------------------------------------------ *)
(* Properties of the gateway and the token layer (Spec)                *)
(* ------------------------------------------------------------------ *)
Retried(p) == Len(sent[p]) >= 2

\* C1: a logical callGraphAPI request makes at most two HTTP attempts and at
\* most one refresh call; a second attempt exists only after the one refresh
\* call that a 401 on the first attempt triggered; a 401 on the retry settles
\* the request as an authorization failure with nothing further sent.
C1_AtMostOneRetry ==
  \A p \in Procs :
    /\ Len(sent[p]) <= 2
    /\ gwCalls[p] <= 1
    /\ (gwCalls[p] = 1 => sent[p][1].status = 401)
    /\ (Retried(p) => gwCalls[p] = 1)
    /\ (Retried(p) /\ sent[p][2].status = 401 =>
          /\ pc[p] \in {"settled", "done"}
          /\ outcome[p].kind = "rejected"
          /\ outcome[p].type = "unauthorized"
          /\ outcome[p].statusCode = 401
          /\ tokRes[p].kind # "pending")

C1_Witness ==
  \E p \in Procs :
    /\ Retried(p)
    /\ sent[p][1].status = 401
    /\ sent[p][2].status = 401
    /\ pc[p] = "settled"
    /\ gwCalls[p] = 1

\* C2: at most one refresh network call is in flight at any instant, whichever
\* callers need a fresh token.
C2_OneRefreshInFlight ==
  Cardinality({i \in Inst : inflight[i]}) <= 1

\* C3: the retry is the same request as the first attempt: same method, same
\* final URL (every query parameter and $filter included), same body.
C3_RetrySameRequest ==
  \A p \in Procs :
    Retried(p) =>
      /\ sent[p][2].method = sent[p][1].method
      /\ sent[p][2].url = sent[p][1].url
      /\ sent[p][2].body = sent[p][1].body

\* C4: after a 401 on the first attempt the retry never carries the access
\* token that was just rejected.
C4_RetryNeverReusesToken ==
  \A p \in Procs :
    Retried(p) => sent[p][2].token # sent[p][1].token

\* C5: the retry is sent only after the refresh call of the request has
\* returned a token, and carries that token; while the request awaits its
\* refresh no retry exists; when the refresh returned nothing or threw, the
\* request settled without a retry.
C5_RetryAfterRefresh ==
  \A p \in Procs :
    /\ (Retried(p) =>
          /\ fresh[p].kind = "token"
          /\ sent[p][2].token = fresh[p].tok)
    /\ (pc[p] = "refresh" => Len(sent[p]) = 1 /\ fresh[p] = NoCall)
    /\ (pc[p] = "attempt2" => tokRes[p].kind # "pending")
    /\ (fresh[p].kind \in FailKinds =>
          /\ Len(sent[p]) = 1
          /\ pc[p] \in {"settled", "done"}
          /\ outcome[p].kind = "rejected")

\* the retry of a request is in flight with a token minted by a refresh grant
\* that the request waited for
C5_Witness ==
  \E p \in Procs :
    /\ pc[p] = "attempt2"
    /\ fresh[p].kind = "token"
    /\ fresh[p].tok > sent[p][1].token
    /\ netCalls > 0

(* ------------------------------------------------------------------ *)
(* Properties of callGraphAPIPaginated (SpecPaginated)                 *)
(* ------------------------------------------------------------------ *)
\* every item of the collection, in page order and item order
RECURSIVE AllValues(_)
AllValues(chain) ==
  IF chain = <<>> THEN <<>>
  ELSE (IF Head(chain).hasValue THEN Head(chain).value ELSE <<>>)
       \o AllValues(Tail(chain))

FirstItems(items, n) == [i \in 1..(IF n < Len(items) THEN n ELSE Len(items)) |-> items[i]]

\* C6: the result is the concatenation of the pages' value arrays in order:
\* all of it when maxCount is 0, its first min(maxCount, total) items when
\* maxCount > 0, and '@odata.count' is the number of items returned.
C6_PaginatedResult ==
  result[Pager] = "collected" =>
    /\ paging.maxCount = 0 => paging.value = AllValues(pages)
    /\ paging.maxCount > 0 =>
         paging.value = FirstItems(AllValues(pages), paging.maxCount)
    /\ paging.count = Len(paging.value)

\* a bounded collection whose last fetched page overshot the bound
C6_Witness ==
  /\ result[Pager] = "collected"
  /\ paging.maxCount > 0
  /\ Len(paging.asked) >= 2
  /\ Len(paging.allItems) > paging.maxCount
  /\ Len(paging.value) = paging.maxCount

\* C7: a follow-up page request is issued only while the accumulated count is
\* below maxCount (or maxCount is 0) and the previous response carried a
\* cursor; once the accumulated count has reached maxCount the call is over.
C7_NoRequestBeyondMax ==
  /\ \A k \in 2..Len(paging.asked) :
       /\ paging.maxCount = 0 \/ paging.asked[k].have < paging.maxCount
       /\ pages[k-1].next
       /\ paging.asked[k].url = CursorUrl(k)
  /\ (paging.maxCount > 0 /\ Len(paging.allItems) >= paging.maxCount =>
        /\ pc[Pager] = "done"
        /\ result[Pager] = "collected")

\* the bound was reached on a page that carried a cursor, and the call ended
C7_Witness ==
  /\ result[Pager] = "collected"
  /\ paging.maxCount > 0
  /\ Len(paging.allItems) >= paging.maxCount
  /\ pages[Len(paging.asked)].next

\* C8: with a method other than GET the call fails at once as unsupported:
\* no token was used and no HTTP request or refresh was issued.
C8_NonGetUnsupported ==
  (op[Pager] = "paged" /\ paging.method # "GET") =>
    /\ result[Pager] = "unsupported"
    /\ pc[Pager] = "done"
    /\ sent[Pager] = <<>>
    /\ token[Pager] = 0
    /\ tokRes[Pager] = NoCall
    /\ gwCalls[Pager] = 0
    /\ netCalls = 0

C8_Witness ==
  /\ result[Pager] = "unsupported"
  /\ paging.method = "POST"

\* C9: a request whose path is an absolute URL goes to exactly that URL,
\* whatever query parameters were supplied, on the first attempt and on the
\* retry; every follow-up page request passes the cursor and an empty
\* parameter map.
C9_CursorVerbatim ==
  /\ \A k \in 1..Len(sent[Pager]) :
       IsFullUrl(req[Pager].path) => sent[Pager][k].url = req[Pager].path
  /\ \A k \in 2..Len(paging.asked) :
       /\ paging.asked[k].params = <<>>
       /\ paging.asked[k].url = CursorUrl(k)
  /\ (pc[Pager] \in {"attempt1", "refresh", "attempt2", "settled"}
        /\ op[Pager] = "paged" =>
          req[Pager].path = paging.asked[Len(paging.asked)].url)

\* a collection started from a cursor with parameters supplied, now retrying
\* a follow-up page
C9_Witness ==
  /\ Len(paging.asked) >= 2
  /\ IsFullUrl(paging.asked[1].url)
  /\ paging.asked[1].params # <<>>
  /\ Len(sent[Pager]) = 2

(* ------------------------------------------------------------------ *)
(* Properties of the URL construction (SpecUrl)                        *)
(* ------------------------------------------------------------------ *)
PctChars == {" ","!","$","%","&","'","(",")","+","/",":","=","?","~"}

\* what a server reads back from a form-encoded component
RECURSIVE FormDecode(_)
FormDecode(s) ==
  IF s = <<>> THEN <<>>
  ELSE IF Head(s) = "+" THEN <<" ">> \o FormDecode(Tail(s))
  ELSE IF Head(s) = "%" /\ Len(s) >= 3
            /\ \E c \in PctChars : PctOf(c) = SubSeq(s, 1, 3)
         THEN <<CHOOSE c \in PctChars : PctOf(c) = SubSeq(s, 1, 3)>>
              \o FormDecode(SubSeq(s, 4, Len(s)))
  ELSE <<Head(s)>> \o FormDecode(Tail(s))

ParseComponent(c) ==
  IF \E i \in 1..Len(c) : c[i] = "="
    THEN LET i == CHOOSE j \in 1..Len(c) :
                    c[j] = "=" /\ \A k \in 1..(j-1) : c[k] # "="
         IN <<FormDecode(SubSeq(c, 1, i-1)), FormDecode(SubSeq(c, i+1, Len(c)))>>
    ELSE <<FormDecode(c), <<>>>>

ParseQuery(q) == MapSeq(ParseComponent, Split(q, "&"))

\* the part of a URL from its first '?' on
QueryOf(url) ==
  IF \E i \in 1..Len(url) : url[i] = "?"
    THEN LET i == CHOOSE j \in 1..Len(url) :
                    url[j] = "?" /\ \A k \in 1..(j-1) : url[k] # "?"
         IN SubSeq(url, i, Len(url))
    ELSE <<>>

\* the entries a reader of the query string should find: the general ones in
\* order, then $filter
ExpectedEntries(params) ==
  IF FilterTruthy(params)
    THEN Append(DeleteKey(params, FILTER_KEY),
                <<FILTER_KEY, ValueOf(params, FILTER_KEY)>>)
    ELSE params

\* C10: for a relative path the query string is well formed: none for an
\* empty map; otherwise one leading '?', components joined by '&' that read
\* back as the given entries, general parameters form-encoded, and a given
\* $filter once, last, literally named and percent-encoded as a whole.
C10_QueryWellFormed ==
  (urlOut.built /\ ~IsFullUrl(urlIn.path)) =>
    LET q == QueryOf(urlOut.url)
        raw == Split(Tail(q), "&")
    IN /\ urlIn.params = <<>> => q = <<>>
       /\ urlIn.params # <<>> =>
            /\ q # <<>>
            /\ CountChar(urlOut.url, "?") = 1
            /\ Len(raw) = Len(urlIn.params)
            /\ ParseQuery(Tail(q)) = ExpectedEntries(urlIn.params)
            /\ \A k \in 1..Len(raw) :
                 (k < Len(raw) \/ ~FilterTruthy(urlIn.params)) =>
                   \A i \in 1..Len(raw[k]) :
                     raw[k][i] \in FormUnreserved \cup {"%", "+", "="}
            /\ FilterTruthy(urlIn.params) =>
                 LET last == raw[Len(raw)]
                     val  == SubSeq(last, Len(FILTER_ALONE) + 1, Len(last))
                 IN /\ StartsWith(last, FILTER_ALONE)
                    /\ CountChar(urlOut.url, "$") = 1
                    /\ \A i \in 1..Len(val) : val[i] \in UriUnreserved \cup {"%"}

\* general parameters and a $filter with spaces and quotes, both present
C10_Witness ==
  /\ urlOut.built
  /\ ~IsFullUrl(urlIn.path)
  /\ Len(urlIn.params) = 2
  /\ HasKey(urlIn.params, FILTER_KEY)
  /\ ValueOf(urlIn.params, FILTER_KEY) = FILTER_HELLO
  /\ urlIn.params[1][1] = FILTER_KEY


(* ------------------------------------------------------------------ *)
(* C11: a first-attempt response whose status is neither 2xx nor 401     *)
(* makes callGraphAPI fail with an error carrying that status and the   *)
(* raw response body, with no token refresh and no second attempt       *)
(* ------------------------------------------------------------------ *)
PlainError(statusCode) ==
  statusCode > 0 /\ ~IsSuccess(statusCode) /\ statusCode # 401

C11_ErrorNotRetried ==
  \A p \in Procs :
    (Len(sent[p]) >= 1 /\ PlainError(sent[p][1].status)) =>
      /\ pc[p] \in {"settled", "done"}
      /\ Len(sent[p]) = 1
      /\ gwCalls[p] = 0
      /\ fresh[p] = NoCall
      /\ outcome[p].kind = "rejected"
      /\ outcome[p].type = "api"
      /\ outcome[p].status = sent[p][1].status
      /\ outcome[p].body = sent[p][1].answer

C11_Witness ==
  \E p \in Procs :
    /\ Len(sent[p]) = 1
    /\ sent[p][1].status = 404
    /\ sent[p][1].answer = "text"
    /\ pc[p] = "settled"
    /\ outcome[p].body = "text"

(* ------------------------------------------------------------------ *)
(* C12: a failure that is not an authorization failure reaches the      *)
(* caller of callGraphAPI as its own kind, on the retry as well: where  *)
(* the last attempt ended in a non-401 error status, a network error or *)
(* an unparsable 2xx body, the rejection is that API, network or parse  *)
(* error and not an UNAUTHORIZED one with statusCode 401                *)
(* ------------------------------------------------------------------ *)
LastAttempt(p) == sent[p][Len(sent[p])]

\* the kind of failure the last attempt ended in, "none" when it is not one
\* of the three the gateway passes on
FailureKind(a) ==
  IF a.status = -1 THEN "network"
  ELSE IF PlainError(a.status) THEN "api"
  ELSE IF IsSuccess(a.status) /\ ~Parses(a.answer) THEN "parse"
  ELSE "none"

C12_FailureKindKept ==
  \A p \in Procs :
    (/\ pc[p] \in {"settled", "done"}
     /\ Len(sent[p]) >= 1
     /\ FailureKind(LastAttempt(p)) # "none") =>
      /\ outcome[p].kind = "rejected"
      /\ outcome[p].type = FailureKind(LastAttempt(p))
      /\ outcome[p].statusCode # 401

(* ------------------------------------------------------------------ *)
(* C13: once obtaining a token has failed for a tool call (no           *)
(* credential, or the refresh was denied), nothing more is done for     *)
(* that call: no second token acquisition and no API request            *)
(* ------------------------------------------------------------------ *)
C13_NoActionAfterAuthFailure ==
  \A p \in Procs :
    hist[p].authFailed =>
      /\ hist[p].tokenCalls <= 1
      /\ hist[p].apiCalls = 0

\* C14: when a page request of callGraphAPIPaginated fails, the call fails
\* with that very error and hands back no items, not even those of earlier
\* pages; a collection is returned only after a page request that succeeded.
C14_PageErrorFailsCall ==
  (op[Pager] = "paged" /\ pc[Pager] = "done") =>
    /\ outcome[Pager].kind = "rejected" =>
         /\ result[Pager] = "error"
         /\ paging.error = outcome[Pager]
         /\ paging.value = <<>>
    /\ result[Pager] = "collected" =>
         /\ outcome[Pager].kind = "resolved"
         /\ paging.error = NoOutcome

\* a later page fails after items of earlier pages were accumulated
C14_Witness ==
  /\ pc[Pager] = "done"
  /\ result[Pager] = "error"
  /\ Len(paging.asked) >= 2
  /\ Len(paging.allItems) >= 1
  /\ paging.error.kind = "rejected"

\* C15: callGraphAPIPaginated terminates when every page request returns and
\* the cursor chain is finite, and its loop goes on to another page request
\* exactly when the response carried a cursor and the bound is not reached,
\* whether or not that response had a value array.
PageSettledOk ==
  /\ op[Pager] = "paged"
  /\ pc[Pager] = "settled"
  /\ outcome[Pager].kind = "resolved"

C15_LoopStep ==
  (PageSettledOk /\ pc'[Pager] # "settled") =>
    LET response == pages[outcome[Pager].page]
        have == Len(paging.allItems)
                + (IF response.hasValue THEN Len(response.value) ELSE 0)
    IN (pc'[Pager] = "attempt1") <=>
         (response.next /\ (paging.maxCount = 0 \/ have < paging.maxCount))

C15_PaginatedTerminates ==
  /\ [][C15_LoopStep]_vars
  /\ (op[Pager] = "paged") ~> (pc[Pager] = "done")

\* the collection completed after a page that had a cursor but no value array
C15_Witness ==
  /\ result[Pager] = "collected"
  /\ Len(paging.asked) >= 2
  /\ ~pages[1].hasValue

\* C16: every page request is a callGraphAPI call of its own, first sent with
\* the access token callGraphAPIPaginated was given, also after an earlier
\* page was retried with a refreshed token; over k page requests there are at
\* most k refresh calls and at most 2k HTTP attempts.
C16_PagesIndependent ==
  (op[Pager] = "paged" /\ Len(sent[Pager]) >= 1) =>
    /\ sent[Pager][1].token = paging.accessToken
    /\ hist[Pager].apiCalls = Len(paging.asked)
    /\ hist[Pager].refreshCalls <= Len(paging.asked)
    /\ hist[Pager].attempts <= 2 * Len(paging.asked)

\* the second page is being requested after the first one was retried with
\* a refreshed token
C16_Witness ==
  /\ op[Pager] = "paged"
  /\ Len(paging.asked) = 2
  /\ Len(sent[Pager]) = 1
  /\ hist[Pager].attempts = 3
  /\ hist[Pager].refreshCalls = 1
  /\ sent[Pager][1].token = paging.accessToken

\* C17: every callGraphAPI invocation settles, and settles once: while its
\* request is in flight or its refresh is awaited its promise is pending, it
\* is resolved or rejected eventually, and never a second time.
C17_SettlesOnce ==
  \A p \in Procs :
    /\ hist[p].settles <= 1
    /\ (pc[p] \in {"attempt1", "refresh", "attempt2"}) =>
         (hist[p].settles = 0 /\ outcome[p].kind = "none")
    /\ (pc[p] = "settled") =>
         (hist[p].settles = 1 /\ outcome[p].kind \in {"resolved", "rejected"})

C17_EventuallySettles ==
  /\ []C17_SettlesOnce
  /\ \A p \in Procs : (pc[p] = "attempt1") ~> (pc[p] = "settled")

\* a call settled by the catch block after its refresh call threw
C17_Witness ==
  \E p \in Procs :
    /\ pc[p] = "settled"
    /\ fresh[p].kind = "throw"
    /\ hist[p].settles = 1
    /\ outcome[p].kind = "rejected"

\* C18 as stated: handleCreateDraft given neither subject nor body returns
\* the validation message with no token acquired and no API request; given
\* at least one of them it acquires a token and has made exactly one POST
\* draft-creation call through callGraphAPI by the time it returns.
C18_OneDraftCall ==
  \A p \in Procs :
    (op[p] = "draft" /\ pc[p] = "done") =>
      /\ hist[p].given = "neither" =>
           /\ result[p] = "validation"
           /\ hist[p].tokenCalls = 0
           /\ hist[p].apiCalls = 0
      /\ hist[p].given = "some" =>
           /\ hist[p].tokenCalls >= 1
           /\ hist[p].apiCalls = 1
           /\ req[p] = DraftRequest(hist[p].variant)

\* C18 amended: as above, but the POST call is made exactly once only if
\* the token acquisition yields a token; if it fails, no call is made and
\* the failure is returned.
C18_OneDraftCallIfToken ==
  \A p \in Procs :
    op[p] = "draft" =>
      /\ hist[p].given = "neither" =>
           /\ pc[p] = "done"
           /\ result[p] = "validation"
           /\ hist[p].tokenCalls = 0
           /\ hist[p].apiCalls = 0
           /\ sent[p] = <<>>
      /\ hist[p].given = "some" =>
           /\ hist[p].tokenCalls >= 1
           /\ hist[p].apiCalls <= 1
           /\ hist[p].apiCalls = 1 =>
                /\ req[p] = DraftRequest(hist[p].variant)
                /\ req[p].method = "POST"
                /\ token[p] \in 1..issued
           /\ (pc[p] = "done" /\ hist[p].apiCalls = 0) =>
                /\ hist[p].authFailed
                /\ result[p] \in {"authRequired", "errorCreatingDraft"}
           /\ (pc[p] = "done" /\ result[p] = "created") =>
                hist[p].apiCalls = 1

\* a draft with a subject or a body was created by its one POST call
C18_Witness ==
  \E p \in Procs :
    /\ op[p] = "draft"
    /\ pc[p] = "done"
    /\ hist[p].given = "some"
    /\ hist[p].apiCalls = 1
    /\ result[p] = "created"

\* C19: handleCreateDraft never throws, and an authorization failure of the
\* draft call (a 401 that no retry cured: the refresh failed, or the retry
\* was answered 401 too) is returned as the 'Authentication required'
\* prompt and not as 'Error creating draft'.
C19_AuthFailurePrompted ==
  \A p \in Procs :
    (op[p] = "draft" /\ pc[p] = "done") =>
      /\ result[p] # "thrown"
      /\ (/\ Len(sent[p]) >= 1
          /\ outcome[p].kind = "rejected"
          /\ LastAttempt(p).status = 401) => result[p] = "authRequired"

\* C20: the fallback request handler always returns a value and never
\* throws; tools/call for a tool that is not registered or has no handler
\* returns error -32601 and invokes no handler; an exception of a tool
\* handler returns error -32603; an unknown method returns error -32601; a
\* known tool's handler is invoked exactly once, with the arguments of the
\* request, or with an empty object when the request gives none.
NoArgsGiven(r) ==
  r.arguments = "absent" /\ r.input = "absent" /\ r.nested = "absent"

C20_HandlerAlwaysAnswers ==
  LET r == rpc.request
      known == r.method = "tools/call" /\ r.name \in ToolsWithHandler
  IN /\ rpc.invoked <= 1
     /\ rpc.response.kind \in {"none", "result", "error"}
     /\ rpc.phase = "inHandler" =>
          /\ known
          /\ rpc.invoked = 1
          /\ NoArgsGiven(r) => rpc.passed = "{}"
          /\ r.arguments \in {"{}", "{to}"} => rpc.passed = r.arguments
          /\ rpc.passed \notin {"absent", "none"}
     /\ rpc.phase = "returned" =>
          /\ rpc.response.kind \in {"result", "error"}
          /\ rpc.response.kind = "error" =>
               rpc.response.code \in {-32601, -32603}
          /\ (r.present /\ r.method = "tools/call" /\ ~known) =>
               /\ rpc.response = ErrorResponse(-32601, "Tool not found")
               /\ rpc.invoked = 0
          /\ (r.present /\ r.method \notin ListMethods \cup {"tools/call"}) =>
               /\ rpc.response = ErrorResponse(-32601, "Method not found")
               /\ rpc.invoked = 0
          /\ (r.present /\ r.method \in ListMethods) =>
               /\ rpc.response.kind = "result"
               /\ rpc.invoked = 0
          /\ (r.present /\ known) =>
               /\ rpc.invoked = 1
               /\ rpc.response.kind = "error" => rpc.response.code = -32603

\* a tool handler invoked with the default empty object threw
C20_Witness ==
  /\ rpc.phase = "returned"
  /\ rpc.invoked = 1
  /\ NoArgsGiven(rpc.request)
  /\ rpc.passed = "{}"
  /\ rpc.response.code = -32603
====
